---- MODULE Spec2Model ----
(***************************************************************************)
(* State-machine model of the KunQuant-rs binding layer: the Rust-side     *)
(* objects (Executor, Library, Module, BufferNameMap, StreamContext), the  *)
(* native engine behind the extern "C" table of ffi.rs, and every public   *)
(* operation as one action.  Strings are sequences of bytes, so that the   *)
(* CString conversion and the native side's reading of a C string are      *)
(* modelled by what they do.                                               *)
(***************************************************************************)
EXTENDS Integers, Sequences, FiniteSets, TLC

VARIABLES
    executor,   \* the Executor object, or NoObj
    library,    \* the Library object, or NoObj
    module,     \* the Module object, or NoObj
    buffers,    \* the BufferNameMap object, or NoObj
    stream,     \* the StreamContext object, or NoObj
    nNext,      \* native: next fresh handle value
    nAlive,     \* native: handles created and not yet destroyed
    nKind,      \* native: the creator each handle came from
    nDestroys,  \* native: the destroy calls received per handle, in order
    nTable,     \* native: buffer-name table of the stream session
    nIn,        \* native: data last pushed per buffer handle of the session
    nRan,       \* native: TRUE once kunStreamRun was called on the session
    nMap,       \* native: name -> pointer table of the buffer-name map
    nReplaced,  \* native: names of the table whose pointer a later call replaced
    cMem,       \* caller: per buffer address, whether it is allocated and its data
    nQueries,   \* native: kunQueryBufferHandle calls per name, this session
    uaf,        \* TRUE once a native call received a handle that is not alive
    view,       \* the slice get_current_buffer returned, while the caller holds it
    last        \* the last operation: its name, arguments, result, native calls

vars == <<executor, library, module, buffers, stream, nNext, nAlive, nKind, nDestroys,
          nTable, nIn, nRan, nMap, nReplaced, cMem, nQueries, uaf, view, last>>

----------------------------------------------------------------------------
(* Bounds *)

MaxHandles == 5     \* native handle values are 1..MaxHandles
MaxLen     == 2     \* longest data slice a caller passes to push_data
MaxStocks  == 2     \* largest num_stocks a caller passes to StreamContext::new
MaxQueries == 2     \* native handle queries per name and session
UsizeBits  == 3     \* width of usize
MaxTime    == 2     \* largest time value a caller passes to BatchParams

----------------------------------------------------------------------------
(* Values *)

NULL == 0                       \* the null pointer
NUL == 0                        \* the NUL byte
USIZE_MAX == 2^UsizeBits - 1    \* usize::MAX, the not-found sentinel

NoObj == [tag |-> "none"]

\* Strings the callers pass: two plain names and one with an embedded NUL.
Names == {<<1>>, <<2>>, <<1, NUL, 2>>}

\* Paths the callers pass to Library::load.
PathGood    == <<1>>
PathCorrupt == <<2>>
PathMissing == <<3>>
PathNul     == <<1, NUL>>
Paths == {PathGood, PathCorrupt, PathMissing, PathNul}

\* Data slices: every sequence over Vals of length 0..MaxLen.
Vals == {1, 2}
RECURSIVE SeqsOfLen(_)
SeqsOfLen(n) == IF n = 0 THEN {<<>>}
                ELSE {Append(s, v) : s \in SeqsOfLen(n - 1), v \in Vals}
DataSlices == UNION {SeqsOfLen(n) : n \in 0..MaxLen}

StockCounts == 0..MaxStocks

\* Caller buffer addresses handed to set_buffer.
Pointers == {10, 20}

Ok(v) == [ok |-> TRUE, val |-> v]
Err(e) == [ok |-> FALSE, err |-> e]
Unit == <<>>

\* A panic with message msg: the call does not return.
Panic(msg) == [ok |-> FALSE, panic |-> msg]

\* The operation o ended in a panic.
Panicked(o) == ~o.ret.ok /\ "panic" \in DOMAIN o.ret

\* Result::expect: the result when it is Ok, a panic with msg otherwise.
Expect(result, msg) == IF result.ok THEN result ELSE Panic(msg)

\* The variants of KunQuantError.
ErrorKinds == {"ExecutorCreationFailed", "LibraryLoadFailed", "ModuleNotFound",
               "BufferNameMapCreationFailed", "InvalidBufferName",
               "InvalidStockCount", "BufferSizeMismatch", "StreamCreationFailed",
               "BufferHandleNotFound", "NullPointer", "StringConversion",
               "Utf8Conversion"}

----------------------------------------------------------------------------
(* Strings across the boundary *)

HasNul(s) == \E i \in DOMAIN s : s[i] = NUL

\* A conversion that appends the terminator without looking for a NUL.
CStringNew_Unchecked(s) == Ok(Append(s, NUL))

\* CString::new: fails with NulError on an interior NUL byte, otherwise
\* the bytes followed by the terminator.
CStringNew(s) == IF HasNul(s) THEN Err([kind |-> "StringConversion"])
                 ELSE Ok(Append(s, NUL))

\* What the native side reads through a const char*: the bytes before the
\* first NUL.
RECURSIVE CStrRead(_)
CStrRead(c) == IF c = <<>> \/ Head(c) = NUL THEN <<>>
               ELSE <<Head(c)>> \o CStrRead(Tail(c))

\* Path::exists: a path with an interior NUL cannot be stat-ed, so it does
\* not exist; otherwise the file system decides.
FsFiles == {PathGood, PathCorrupt}
PathExists(p) == ~HasNul(p) /\ p \in FsFiles

----------------------------------------------------------------------------
(* The native engine *)

\* One native call: the entry point, its arguments and what it returned.
Call(fn, args, ret) == [fn |-> fn, args |-> args, ret |-> ret]

\* Name tables a stream session can have: each plain name is an input or
\* output of the module (with its index as handle) or unknown (sentinel).
PlainNames == {n \in Names : ~HasNul(n)}
NativeTables == {t \in [PlainNames -> {0, 1, USIZE_MAX}] :
                     \A n \in PlainNames : t[n] \in {n[1] - 1, USIZE_MAX}}

\* kunQueryBufferHandle: the handle of a known name, SIZE_MAX otherwise.
kunQueryBufferHandle(table, cname) ==
    LET n == CStrRead(cname) IN
    IF n \in DOMAIN table THEN table[n] ELSE USIZE_MAX

\* kunGetModuleFromLibrary: the library holds one module, named <<1>>; its
\* handle is the value after the library's.
LibModules == {<<1>>}
kunGetModuleFromLibrary(lib, cname) ==
    IF CStrRead(cname) \in LibModules THEN lib + 1 ELSE NULL

\* A native call that receives handles hs uses a dead one.
DeadUse(hs) == \E h \in hs : h \notin nAlive

EmptyFn == <<>>

\* kunStreamGetCurrentBuffer: the address of the session's buffer for the
\* handle, or null when the native side has no data for it.
BufAddr(h) == 100 + h
kunStreamGetCurrentBuffer(h) == {NULL, BufAddr(h)}

\* Queries the native side has seen for each name it can read.
ReadNames == PlainNames \cup {CStrRead(Append(n, NUL)) : n \in Names}
RECURSIVE CountQueries(_, _)
CountQueries(calls, n) ==
    IF calls = <<>> THEN 0
    ELSE (IF Head(calls).fn = "kunQueryBufferHandle"
             /\ CStrRead(Head(calls).args[2]) = n THEN 1 ELSE 0)
         + CountQueries(Tail(calls), n)
Queried(calls) == [n \in ReadNames |-> nQueries[n] + CountQueries(calls, n)]

Fns(calls) == {calls[i].fn : i \in DOMAIN calls}

Op(op, args, ret, calls) == [op |-> op, args |-> args, ret |-> ret, calls |-> calls]

objVars    == <<executor, library, module, buffers, stream>>
handleVars == <<nNext, nAlive, nKind, nDestroys>>
sessVars   == <<nTable, nIn, nRan, nQueries, view>>
mapVars    == <<nMap, nReplaced, cMem>>

----------------------------------------------------------------------------
(* StreamContext (stream.rs) *)

ExecutorBorrowed_Never == FALSE

\* Borrows held by live objects: a Module holds &Library, a StreamContext
\* holds &Executor and &Module, so the borrowed owner cannot be dropped.
LibraryBorrowed  == module # NoObj
ExecutorBorrowed == stream # NoObj
ModuleBorrowed   == stream # NoObj

\* No slice is held.
NoView == [tag |-> "none"]

\* A context whose output slice never borrows it.
ViewBorrowed_Never == FALSE

\* The slice get_current_buffer returns borrows the context mutably for as
\* long as the caller holds it: no method can be called on the context, and
\* the context cannot be dropped, until the slice is gone.
ViewBorrowed == view # NoView

\* Handles a native call on the session depends on.
SessionHandles(s) == {s.handle, s._executor, s._module}

\* StreamContext::new that rejects a stock count that is no multiple of 8
\* before it reaches the native side.
StreamContext_new_Validated(num_stocks) ==
    /\ executor # NoObj /\ module # NoObj /\ stream = NoObj
    /\ \E handle \in {NULL} \cup ({nNext} \cap (1..MaxHandles)), table \in NativeTables :
        LET calls == <<Call("kunCreateStream",
                            <<executor.handle, module.handle, num_stocks>>, handle)>> IN
        IF num_stocks % 8 # 0
        THEN /\ last' = Op("StreamContext::new", <<num_stocks>>,
                           Err([kind |-> "StreamCreationFailed"]), <<>>)
             /\ UNCHANGED <<objVars, handleVars, sessVars, uaf>>
        ELSE /\ uaf' = (uaf \/ DeadUse({executor.handle, module.handle}))
             /\ IF handle = NULL
                THEN /\ last' = Op("StreamContext::new", <<num_stocks>>,
                                   Err([kind |-> "StreamCreationFailed"]), calls)
                     /\ UNCHANGED <<objVars, handleVars, sessVars>>
                ELSE /\ stream' = [tag |-> "StreamContext", handle |-> handle,
                                   num_stocks |-> num_stocks,
                                   _executor |-> executor.handle,
                                   _module |-> module.handle,
                                   buffer_handles |-> EmptyFn]
                     /\ nNext' = nNext + 1
                     /\ nAlive' = nAlive \cup {handle}
                     /\ nKind' = [nKind EXCEPT ![handle] = "kunCreateStream"]
                     /\ nTable' = table
                     /\ nIn' = [h \in {0, 1} |-> <<>>]
                     /\ nRan' = FALSE
                     /\ nQueries' = [n \in ReadNames |-> 0]
                     /\ UNCHANGED view
                     /\ last' = Op("StreamContext::new", <<num_stocks>>, Ok(handle), calls)
                     /\ UNCHANGED <<executor, library, module, buffers, nDestroys>>
    /\ UNCHANGED mapVars

StreamContext_new(num_stocks) ==
    /\ executor # NoObj /\ module # NoObj /\ stream = NoObj
    /\ \E handle \in {NULL} \cup ({nNext} \cap (1..MaxHandles)), table \in NativeTables :
        LET calls == <<Call("kunCreateStream",
                            <<executor.handle, module.handle, num_stocks>>, handle)>> IN
        /\ uaf' = (uaf \/ DeadUse({executor.handle, module.handle}))
        /\ IF handle = NULL
           THEN /\ last' = Op("StreamContext::new", <<num_stocks>>,
                              Err([kind |-> "StreamCreationFailed"]), calls)
                /\ UNCHANGED <<objVars, handleVars, sessVars>>
           ELSE /\ stream' = [tag |-> "StreamContext", handle |-> handle,
                              num_stocks |-> num_stocks,
                              _executor |-> executor.handle,
                              _module |-> module.handle,
                              buffer_handles |-> EmptyFn]
                /\ nNext' = nNext + 1
                /\ nAlive' = nAlive \cup {handle}
                /\ nKind' = [nKind EXCEPT ![handle] = "kunCreateStream"]
                /\ nTable' = table
                /\ nIn' = [h \in {0, 1} |-> <<>>]
                /\ nRan' = FALSE
                /\ nQueries' = [n \in ReadNames |-> 0]
                /\ UNCHANGED view
                /\ last' = Op("StreamContext::new", <<num_stocks>>, Ok(handle), calls)
                /\ UNCHANGED <<executor, library, module, buffers, nDestroys>>
    /\ UNCHANGED mapVars

\* get_buffer_handle without the cache lookup: every resolution queries.
GetBufferHandle_NoCache(s, name) ==
    LET c_name == CStringNew(name) IN
    IF ~c_name.ok
    THEN [ret |-> c_name, cache |-> s.buffer_handles, calls |-> <<>>]
    ELSE LET handle == kunQueryBufferHandle(nTable, c_name.val)
             calls == <<Call("kunQueryBufferHandle", <<s.handle, c_name.val>>, handle)>>
         IN IF handle = USIZE_MAX
            THEN [ret |-> Err([kind |-> "BufferHandleNotFound", name |-> name]),
                  cache |-> s.buffer_handles, calls |-> calls]
            ELSE [ret |-> Ok(handle),
                  cache |-> (name :> handle) @@ s.buffer_handles,
                  calls |-> calls]

\* get_buffer_handle without the test for the sentinel.
GetBufferHandle_NoSentinel(s, name) ==
    IF name \in DOMAIN s.buffer_handles
    THEN [ret |-> Ok(s.buffer_handles[name]), cache |-> s.buffer_handles,
          calls |-> <<>>]
    ELSE LET c_name == CStringNew(name) IN
         IF ~c_name.ok
         THEN [ret |-> c_name, cache |-> s.buffer_handles, calls |-> <<>>]
         ELSE LET handle == kunQueryBufferHandle(nTable, c_name.val)
                  calls == <<Call("kunQueryBufferHandle", <<s.handle, c_name.val>>, handle)>>
              IN [ret |-> Ok(handle),
                  cache |-> (name :> handle) @@ s.buffer_handles,
                  calls |-> calls]

\* get_buffer_handle that caches what the native query returned before it
\* tests it for the sentinel.
GetBufferHandle_CachesFailure(s, name) ==
    IF name \in DOMAIN s.buffer_handles
    THEN [ret |-> Ok(s.buffer_handles[name]), cache |-> s.buffer_handles,
          calls |-> <<>>]
    ELSE LET c_name == CStringNew(name) IN
         IF ~c_name.ok
         THEN [ret |-> c_name, cache |-> s.buffer_handles, calls |-> <<>>]
         ELSE LET handle == kunQueryBufferHandle(nTable, c_name.val)
                  calls == <<Call("kunQueryBufferHandle", <<s.handle, c_name.val>>, handle)>>
              IN [ret |-> IF handle = USIZE_MAX
                          THEN Err([kind |-> "BufferHandleNotFound", name |-> name])
                          ELSE Ok(handle),
                  cache |-> (name :> handle) @@ s.buffer_handles,
                  calls |-> calls]

\* The body of get_buffer_handle: its result, the cache afterwards and the
\* native calls it issued.
GetBufferHandle(s, name) ==
    IF name \in DOMAIN s.buffer_handles
    THEN [ret |-> Ok(s.buffer_handles[name]), cache |-> s.buffer_handles,
          calls |-> <<>>]
    ELSE LET c_name == CStringNew(name) IN
         IF ~c_name.ok
         THEN [ret |-> c_name, cache |-> s.buffer_handles, calls |-> <<>>]
         ELSE LET handle == kunQueryBufferHandle(nTable, c_name.val)
                  calls == <<Call("kunQueryBufferHandle", <<s.handle, c_name.val>>, handle)>>
              IN IF handle = USIZE_MAX
                 THEN [ret |-> Err([kind |-> "BufferHandleNotFound", name |-> name]),
                       cache |-> s.buffer_handles, calls |-> calls]
                 ELSE [ret |-> Ok(handle),
                       cache |-> (name :> handle) @@ s.buffer_handles,
                       calls |-> calls]

\* What every stream operation does to the state outside the session data.
StreamStep(op, args, ret, cache, calls) ==
    /\ ~ViewBorrowed
    /\ nQueries' = Queried(calls)
    /\ \A n \in ReadNames : nQueries'[n] <= MaxQueries
    /\ stream' = [stream EXCEPT !.buffer_handles = cache]
    /\ uaf' = (uaf \/ (calls # <<>> /\ DeadUse(SessionHandles(stream))))
    /\ view' = IF op = "get_current_buffer" /\ ret.ok
               THEN [tag |-> "view", ptr |-> ret.val.ptr, len |-> ret.val.len]
               ELSE view
    /\ last' = Op(op, args, ret, calls)
    /\ UNCHANGED <<executor, library, module, buffers, handleVars, nTable, mapVars>>

get_buffer_handle(name) ==
    /\ stream # NoObj
    /\ \E r \in {GetBufferHandle(stream, name)} :
       StreamStep("get_buffer_handle", <<name>>, r.ret, r.cache, r.calls)
    /\ UNCHANGED <<nIn, nRan>>

\* get_current_buffer without the test for a null buffer pointer.
get_current_buffer_NoNullCheck(name) ==
    /\ stream # NoObj
    /\ \E r \in {GetBufferHandle(stream, name)} :
       IF ~r.ret.ok
       THEN StreamStep("get_current_buffer", <<name>>, r.ret, r.cache, r.calls)
       ELSE \E ptr \in kunStreamGetCurrentBuffer(r.ret.val) :
              StreamStep("get_current_buffer", <<name>>,
                         Ok([ptr |-> ptr, len |-> stream.num_stocks]), r.cache,
                         Append(r.calls, Call("kunStreamGetCurrentBuffer",
                                              <<stream.handle, r.ret.val>>, ptr)))
    /\ UNCHANGED <<nIn, nRan>>

get_current_buffer(name) ==
    /\ stream # NoObj
    /\ \E r \in {GetBufferHandle(stream, name)} :
       IF ~r.ret.ok
       THEN StreamStep("get_current_buffer", <<name>>, r.ret, r.cache, r.calls)
       ELSE \E ptr \in kunStreamGetCurrentBuffer(r.ret.val) :
              LET calls == Append(r.calls, Call("kunStreamGetCurrentBuffer",
                                                <<stream.handle, r.ret.val>>, ptr))
                  ret == IF ptr = NULL THEN Err([kind |-> "NullPointer"])
                         ELSE Ok([ptr |-> ptr, len |-> stream.num_stocks])
              IN StreamStep("get_current_buffer", <<name>>, ret, r.cache, calls)
    /\ UNCHANGED <<nIn, nRan>>

\* push_data that resolves the handle before it checks the length.
push_data_ResolveFirst(name, data) ==
    /\ stream # NoObj
    /\ \E r \in {GetBufferHandle(stream, name)} :
       IF ~r.ret.ok
       THEN /\ StreamStep("push_data", <<name, data>>, r.ret, r.cache, r.calls)
            /\ UNCHANGED nIn
       ELSE IF Len(data) # stream.num_stocks
       THEN /\ StreamStep("push_data", <<name, data>>,
                          Err([kind |-> "BufferSizeMismatch", name |-> name,
                               expected |-> stream.num_stocks,
                               actual |-> Len(data)]),
                          r.cache, r.calls)
            /\ UNCHANGED nIn
       ELSE /\ StreamStep("push_data", <<name, data>>, Ok(Unit), r.cache,
                          Append(r.calls, Call("kunStreamPushData",
                                       <<stream.handle, r.ret.val, data>>, Unit)))
            /\ nIn' = IF r.ret.val \in DOMAIN nIn
                      THEN [nIn EXCEPT ![r.ret.val] = data] ELSE nIn
    /\ UNCHANGED nRan

\* push_data that pushes under the sentinel when the resolution failed.
push_data_IgnoreMissing(name, data) ==
    /\ stream # NoObj
    /\ IF Len(data) # stream.num_stocks
       THEN /\ StreamStep("push_data", <<name, data>>,
                          Err([kind |-> "BufferSizeMismatch", name |-> name,
                               expected |-> stream.num_stocks,
                               actual |-> Len(data)]),
                          stream.buffer_handles, <<>>)
            /\ UNCHANGED nIn
       ELSE LET r == GetBufferHandle(stream, name)
                handle == IF r.ret.ok THEN r.ret.val ELSE USIZE_MAX
            IN /\ StreamStep("push_data", <<name, data>>, Ok(Unit), r.cache,
                             Append(r.calls, Call("kunStreamPushData",
                                          <<stream.handle, handle, data>>, Unit)))
               /\ nIn' = IF handle \in DOMAIN nIn
                         THEN [nIn EXCEPT ![handle] = data] ELSE nIn
    /\ UNCHANGED nRan

\* push_data that hands the data to the native session twice.
push_data_Twice(name, data) ==
    /\ stream # NoObj
    /\ IF Len(data) # stream.num_stocks
       THEN /\ StreamStep("push_data", <<name, data>>,
                          Err([kind |-> "BufferSizeMismatch", name |-> name,
                               expected |-> stream.num_stocks,
                               actual |-> Len(data)]),
                          stream.buffer_handles, <<>>)
            /\ UNCHANGED nIn
       ELSE \E r \in {GetBufferHandle(stream, name)} :
            IF ~r.ret.ok
            THEN /\ StreamStep("push_data", <<name, data>>, r.ret, r.cache, r.calls)
                 /\ UNCHANGED nIn
            ELSE LET push == Call("kunStreamPushData",
                                  <<stream.handle, r.ret.val, data>>, Unit) IN
                 /\ StreamStep("push_data", <<name, data>>, Ok(Unit), r.cache,
                               Append(Append(r.calls, push), push))
                 /\ nIn' = IF r.ret.val \in DOMAIN nIn
                           THEN [nIn EXCEPT ![r.ret.val] = data] ELSE nIn
    /\ UNCHANGED nRan

push_data(name, data) ==
    /\ stream # NoObj
    /\ IF Len(data) # stream.num_stocks
       THEN /\ StreamStep("push_data", <<name, data>>,
                          Err([kind |-> "BufferSizeMismatch", name |-> name,
                               expected |-> stream.num_stocks,
                               actual |-> Len(data)]),
                          stream.buffer_handles, <<>>)
            /\ UNCHANGED nIn
       ELSE \E r \in {GetBufferHandle(stream, name)} :
            IF ~r.ret.ok
            THEN /\ StreamStep("push_data", <<name, data>>, r.ret, r.cache, r.calls)
                 /\ UNCHANGED nIn
            ELSE /\ StreamStep("push_data", <<name, data>>, Ok(Unit), r.cache,
                               Append(r.calls, Call("kunStreamPushData",
                                            <<stream.handle, r.ret.val, data>>, Unit)))
                 /\ nIn' = IF r.ret.val \in DOMAIN nIn
                           THEN [nIn EXCEPT ![r.ret.val] = data] ELSE nIn
    /\ UNCHANGED nRan

\* run that empties the handle cache.
run_ClearsCache ==
    /\ stream # NoObj
    /\ IF stream.handle = NULL
       THEN /\ StreamStep("run", <<>>, Err([kind |-> "NullPointer"]),
                          stream.buffer_handles, <<>>)
            /\ UNCHANGED nRan
       ELSE /\ StreamStep("run", <<>>, Ok(Unit), EmptyFn,
                          <<Call("kunStreamRun", <<stream.handle>>, Unit)>>)
            /\ nRan' = TRUE
    /\ UNCHANGED nIn

\* run that refuses a session no data was pushed to.
run_OnlyAfterPush ==
    /\ stream # NoObj
    /\ IF stream.handle = NULL \/ \A h \in DOMAIN nIn : nIn[h] = <<>>
       THEN /\ StreamStep("run", <<>>, Err([kind |-> "NullPointer"]),
                          stream.buffer_handles, <<>>)
            /\ UNCHANGED nRan
       ELSE /\ StreamStep("run", <<>>, Ok(Unit), stream.buffer_handles,
                          <<Call("kunStreamRun", <<stream.handle>>, Unit)>>)
            /\ nRan' = TRUE
    /\ UNCHANGED nIn

run ==
    /\ stream # NoObj
    /\ IF stream.handle = NULL
       THEN /\ StreamStep("run", <<>>, Err([kind |-> "NullPointer"]),
                          stream.buffer_handles, <<>>)
            /\ UNCHANGED nRan
       ELSE /\ StreamStep("run", <<>>, Ok(Unit), stream.buffer_handles,
                          <<Call("kunStreamRun", <<stream.handle>>, Unit)>>)
            /\ nRan' = TRUE
    /\ UNCHANGED nIn

\* num_stocks that reports the number of buffers resolved so far.
StreamContext_num_stocks_Resolved ==
    /\ stream # NoObj
    /\ StreamStep("num_stocks", <<>>, Ok(Cardinality(DOMAIN stream.buffer_handles)),
                  stream.buffer_handles, <<>>)
    /\ UNCHANGED <<nIn, nRan>>

StreamContext_num_stocks ==
    /\ stream # NoObj
    /\ StreamStep("num_stocks", <<>>, Ok(stream.num_stocks),
                  stream.buffer_handles, <<>>)
    /\ UNCHANGED <<nIn, nRan>>

\* What a Drop impl does on the native side: one destroy call for a
\* non-null handle, which releases the handle and all of its dependents.
DropStep(op, handle, fn, released) ==
    LET calls == IF handle # NULL THEN <<Call(fn, <<handle>>, Unit)>> ELSE <<>> IN
    /\ last' = Op(op, <<>>, Ok(Unit), calls)
    /\ uaf' = (uaf \/ (handle # NULL /\ DeadUse({handle})))
    /\ nAlive' = IF handle # NULL THEN nAlive \ released ELSE nAlive
    /\ nDestroys' = IF handle \in DOMAIN nDestroys
                    THEN [nDestroys EXCEPT ![handle] = Append(@, fn)] ELSE nDestroys
    /\ UNCHANGED nKind
    /\ UNCHANGED nNext

\* A StreamContext that goes away without its native teardown.
DropStreamContext_Leak ==
    /\ stream # NoObj
    /\ stream' = NoObj
    /\ last' = Op("drop StreamContext", <<>>, Ok(Unit), <<>>)
    /\ UNCHANGED <<executor, library, module, buffers, handleVars, sessVars,
                   mapVars, uaf>>

DropStreamContext ==
    /\ stream # NoObj
    /\ ~ViewBorrowed
    /\ DropStep("drop StreamContext", stream.handle, "kunDestoryStream",
                {stream.handle})
    /\ stream' = NoObj
    /\ UNCHANGED <<executor, library, module, buffers, sessVars, mapVars>>

\* The caller lets go of the slice it got from get_current_buffer.
release_view ==
    /\ view # NoView
    /\ view' = NoView
    /\ last' = Op("drop view", <<>>, Ok(Unit), <<>>)
    /\ UNCHANGED <<objVars, handleVars, nTable, nIn, nRan, nQueries, mapVars, uaf>>

----------------------------------------------------------------------------
(* Executor (executor.rs) *)

\* A constructor that wraps whatever handle it got.
Construct_NoNullCheck(handle, obj, err) == Ok(obj)

\* A constructor that unwraps instead of returning the failure.
Construct_Expect(handle, obj, err) ==
    IF handle = NULL THEN Panic(err.kind) ELSE Ok(obj)

\* What a constructor does with the handle the native creator returned:
\* a null handle is the typed failure err and no object, any other handle
\* is wrapped in obj.
Construct(handle, obj, err) == IF handle = NULL THEN Err(err) ELSE Ok(obj)

\* The native creators return null or a fresh handle.
NativeCreate == {NULL} \cup ({nNext} \cap (1..MaxHandles))

\* The state change of a creator that got handle from the native side and
\* takes width handle values on success.
CreateStep(op, args, handle, ret, calls, width) ==
    /\ last' = Op(op, args, ret, calls)
    /\ nKind' = [h \in DOMAIN nKind |->
                   IF handle # NULL /\ h = handle THEN calls[1].fn
                   ELSE IF handle # NULL /\ h \in (handle + 1)..(handle + width - 1)
                        THEN "kunGetModuleFromLibrary"
                   ELSE nKind[h]]
    /\ nNext' = IF handle = NULL THEN nNext ELSE nNext + width
    /\ nAlive' = IF handle = NULL THEN nAlive
                 ELSE nAlive \cup (handle..(handle + width - 1))
    /\ UNCHANGED <<nDestroys, sessVars, mapVars, uaf>>

Executor_single_thread ==
    /\ executor = NoObj
    /\ \E handle \in NativeCreate :
        LET ret == Construct(handle, [tag |-> "Executor", handle |-> handle],
                             [kind |-> "ExecutorCreationFailed"]) IN
        /\ executor' = IF ret.ok THEN ret.val ELSE executor
        /\ CreateStep("Executor::single_thread", <<>>, handle, ret,
                      <<Call("kunCreateSingleThreadExecutor", <<>>, handle)>>, 1)
    /\ UNCHANGED <<library, module, buffers, stream>>

ThreadCounts == {0, 2}

Executor_multi_thread(num_threads) ==
    /\ executor = NoObj
    /\ \E handle \in NativeCreate :
        LET ret == Construct(handle, [tag |-> "Executor", handle |-> handle],
                             [kind |-> "ExecutorCreationFailed"]) IN
        /\ executor' = IF ret.ok THEN ret.val ELSE executor
        /\ CreateStep("Executor::multi_thread", <<num_threads>>, handle, ret,
                      <<Call("kunCreateMultiThreadExecutor", <<num_threads>>, handle)>>, 1)
    /\ UNCHANGED <<library, module, buffers, stream>>

DropExecutor ==
    /\ executor # NoObj /\ ~ExecutorBorrowed
    /\ DropStep("drop Executor", executor.handle, "kunDestoryExecutor",
                {executor.handle})
    /\ executor' = NoObj
    /\ UNCHANGED <<library, module, buffers, stream, sessVars, mapVars>>

----------------------------------------------------------------------------
(* Library and Module (library.rs) *)

\* kunLoadLibrary: null for anything but a loadable file, and possibly
\* null for that too.
kunLoadLibrary(c_path) ==
    IF CStrRead(c_path) = PathGood THEN NativeCreate \cap ({NULL} \cup (1..(MaxHandles - 1)))
    ELSE {NULL}

\* load that hands every path to the native loader.
Library_load_NoExistsCheck(path) ==
    /\ library = NoObj
    /\ LET c_path == CStringNew(path) IN
       IF ~c_path.ok
       THEN /\ last' = Op("Library::load", <<path>>, c_path, <<>>)
            /\ UNCHANGED <<library, handleVars, sessVars, mapVars, uaf>>
       ELSE \E handle \in kunLoadLibrary(c_path.val) :
              LET ret == Construct(handle, [tag |-> "Library", handle |-> handle],
                                   [kind |-> "LibraryLoadFailed", path |-> path]) IN
              /\ library' = IF ret.ok THEN ret.val ELSE library
              /\ CreateStep("Library::load", <<path>>, handle, ret,
                            <<Call("kunLoadLibrary", <<c_path.val>>, handle)>>, 2)
    /\ UNCHANGED <<executor, module, buffers, stream>>

Library_load(path) ==
    /\ library = NoObj
    /\ IF ~PathExists(path)
       THEN /\ last' = Op("Library::load", <<path>>,
                          Err([kind |-> "LibraryLoadFailed", path |-> path]), <<>>)
            /\ UNCHANGED <<library, handleVars, sessVars, mapVars, uaf>>
       ELSE LET c_path == CStringNew(path) IN
            IF ~c_path.ok
            THEN /\ last' = Op("Library::load", <<path>>, c_path, <<>>)
                 /\ UNCHANGED <<library, handleVars, sessVars, mapVars, uaf>>
            ELSE \E handle \in kunLoadLibrary(c_path.val) :
                   LET ret == Construct(handle, [tag |-> "Library", handle |-> handle],
                                        [kind |-> "LibraryLoadFailed", path |-> path]) IN
                   /\ library' = IF ret.ok THEN ret.val ELSE library
                   /\ CreateStep("Library::load", <<path>>, handle, ret,
                                 <<Call("kunLoadLibrary", <<c_path.val>>, handle)>>, 2)
    /\ UNCHANGED <<executor, module, buffers, stream>>

\* get_module that unloads the library when the module is not found.
get_module_UnloadOnFailure(name) ==
    /\ library # NoObj /\ module = NoObj
    /\ LET c_name == CStringNew(name) IN
       IF ~c_name.ok
       THEN /\ last' = Op("get_module", <<name>>, c_name, <<>>)
            /\ UNCHANGED <<module, uaf, handleVars>>
       ELSE LET module_handle == kunGetModuleFromLibrary(library.handle, c_name.val)
                ret == Construct(module_handle,
                                 [tag |-> "Module", handle |-> module_handle,
                                  _library |-> library.handle],
                                 [kind |-> "ModuleNotFound", name |-> name])
                calls == <<Call("kunGetModuleFromLibrary",
                                <<library.handle, c_name.val>>, module_handle)>>
            IN /\ module' = IF ret.ok THEN ret.val ELSE module
               /\ uaf' = (uaf \/ DeadUse({library.handle}))
               /\ IF ret.ok
                  THEN /\ last' = Op("get_module", <<name>>, ret, calls)
                       /\ UNCHANGED handleVars
                  ELSE /\ last' = Op("get_module", <<name>>, ret,
                                     Append(calls, Call("kunUnloadLibrary",
                                                        <<library.handle>>, Unit)))
                       /\ nAlive' = nAlive \ {library.handle, library.handle + 1}
                       /\ nDestroys' = [nDestroys EXCEPT ![library.handle] =
                                           Append(@, "kunUnloadLibrary")]
                       /\ UNCHANGED <<nNext, nKind>>
    /\ UNCHANGED <<executor, library, buffers, stream, sessVars, mapVars>>

get_module(name) ==
    /\ library # NoObj /\ module = NoObj
    /\ LET c_name == CStringNew(name) IN
       IF ~c_name.ok
       THEN /\ last' = Op("get_module", <<name>>, c_name, <<>>)
            /\ UNCHANGED <<module, uaf>>
       ELSE LET module_handle == kunGetModuleFromLibrary(library.handle, c_name.val)
                ret == Construct(module_handle,
                                 [tag |-> "Module", handle |-> module_handle,
                                  _library |-> library.handle],
                                 [kind |-> "ModuleNotFound", name |-> name])
            IN /\ module' = IF ret.ok THEN ret.val ELSE module
               /\ uaf' = (uaf \/ DeadUse({library.handle}))
               /\ last' = Op("get_module", <<name>>, ret,
                             <<Call("kunGetModuleFromLibrary",
                                    <<library.handle, c_name.val>>, module_handle)>>)
    /\ UNCHANGED <<executor, library, buffers, stream, handleVars, sessVars, mapVars>>

DropLibrary ==
    /\ library # NoObj /\ ~LibraryBorrowed
    /\ DropStep("drop Library", library.handle, "kunUnloadLibrary",
                {library.handle, library.handle + 1})
    /\ library' = NoObj
    /\ UNCHANGED <<executor, module, buffers, stream, sessVars, mapVars>>

\* Module has no Drop impl: the value goes away without a native call.
DropModule ==
    /\ module # NoObj /\ ~ModuleBorrowed
    /\ module' = NoObj
    /\ last' = Op("drop Module", <<>>, Ok(Unit), <<>>)
    /\ UNCHANGED <<executor, library, buffers, stream, handleVars, sessVars, mapVars, uaf>>

----------------------------------------------------------------------------
(* BufferNameMap (buffer.rs) *)

BufferNameMap_new ==
    /\ buffers = NoObj
    /\ \E handle \in NativeCreate :
        LET ret == Construct(handle, [tag |-> "BufferNameMap", handle |-> handle,
                                      _buffer_names |-> EmptyFn],
                             [kind |-> "BufferNameMapCreationFailed"]) IN
        /\ buffers' = IF ret.ok THEN ret.val ELSE buffers
        /\ CreateStep("BufferNameMap::new", <<>>, handle, ret,
                      <<Call("kunCreateBufferNameMap", <<>>, handle)>>, 1)
    /\ UNCHANGED <<executor, library, module, stream>>

\* Default for BufferNameMap: new() unwrapped with expect.
BufferNameMap_default ==
    /\ buffers = NoObj
    /\ \E handle \in NativeCreate :
        LET ret == Expect(Construct(handle, [tag |-> "BufferNameMap",
                                             handle |-> handle,
                                             _buffer_names |-> EmptyFn],
                                    [kind |-> "BufferNameMapCreationFailed"]),
                          "Failed to create BufferNameMap") IN
        /\ buffers' = IF ret.ok THEN ret.val ELSE buffers
        /\ CreateStep("BufferNameMap::default", <<>>, handle, ret,
                      <<Call("kunCreateBufferNameMap", <<>>, handle)>>, 1)
    /\ UNCHANGED <<executor, library, module, stream>>

\* set_buffer that keeps the first registration of a name.
SetBuffer_KeepFirst(m, name, buffer) ==
    LET c_name == CStringNew(name) IN
    IF ~c_name.ok
    THEN [ret |-> c_name, names |-> m._buffer_names, table |-> nMap, calls |-> <<>>]
    ELSE IF name \in DOMAIN m._buffer_names
    THEN [ret |-> Ok(Unit), names |-> m._buffer_names, table |-> nMap,
          calls |-> <<>>]
    ELSE [ret |-> Ok(Unit),
          names |-> (name :> c_name.val) @@ m._buffer_names,
          table |-> (CStrRead(c_name.val) :> buffer) @@ nMap,
          calls |-> <<Call("kunSetBufferNameMap", <<m.handle, c_name.val, buffer>>, Unit)>>]

\* The body of set_buffer: its result, the owned names and the native table
\* afterwards, and the native calls it issued.
SetBuffer(m, name, buffer) ==
    LET c_name == CStringNew(name) IN
    IF ~c_name.ok
    THEN [ret |-> c_name, names |-> m._buffer_names, table |-> nMap, calls |-> <<>>]
    ELSE [ret |-> Ok(Unit),
          names |-> (name :> c_name.val) @@ m._buffer_names,
          table |-> (CStrRead(c_name.val) :> buffer) @@ nMap,
          calls |-> <<Call("kunSetBufferNameMap", <<m.handle, c_name.val, buffer>>, Unit)>>]

\* The caller addresses the native table aliases.
Aliased == {nMap[n] : n \in DOMAIN nMap}

\* The names the kunSetBufferNameMap calls among calls registered.
Registered(calls) ==
    {CStrRead(calls[i].args[2]) :
        i \in {j \in DOMAIN calls : calls[j].fn = "kunSetBufferNameMap"}}

MapStep(op, args, ret, names, table, calls) ==
    /\ buffers' = [buffers EXCEPT !._buffer_names = names]
    /\ nMap' = table
    /\ nReplaced' = (nReplaced \cup (Registered(calls) \cap DOMAIN nMap))
                    \cap DOMAIN table
    /\ UNCHANGED cMem
    /\ uaf' = (uaf \/ (calls # <<>> /\ DeadUse({buffers.handle})))
    /\ last' = Op(op, args, ret, calls)
    /\ UNCHANGED <<executor, library, module, stream, handleVars, sessVars>>

set_buffer(name, buffer) ==
    /\ buffers # NoObj
    /\ LET r == SetBuffer(buffers, name, buffer) IN
       MapStep("set_buffer", <<name, buffer>>, r.ret, r.names, r.table, r.calls)

\* A caller slice is its address and its length; as_mut_ptr is the address.
Slices == [ptr : Pointers, len : {8}]

set_buffer_slice(name, buffer) ==
    /\ buffers # NoObj
    /\ LET r == SetBuffer(buffers, name, buffer.ptr) IN
       MapStep("set_buffer_slice", <<name, buffer>>, r.ret, r.names, r.table, r.calls)

\* The function f without the key k.
Without(f, k) == [x \in DOMAIN f \ {k} |-> f[x]]

\* erase_buffer that forgets the owned name without the native erase.
EraseBuffer_NamesOnly(m, name) ==
    [ret |-> Ok(Unit),
     names |-> IF name \in DOMAIN m._buffer_names
               THEN Without(m._buffer_names, name) ELSE m._buffer_names,
     table |-> nMap,
     calls |-> <<>>]

\* erase_buffer without the test for a registered name.
EraseBuffer_Always(m, name) ==
    LET c_name == Append(name, NUL) IN
    [ret |-> Ok(Unit),
     names |-> Without(m._buffer_names, name),
     table |-> Without(nMap, CStrRead(c_name)),
     calls |-> <<Call("kunEraseBufferNameMap", <<m.handle, c_name>>, Unit)>>]

\* The body of erase_buffer.
EraseBuffer(m, name) ==
    IF name \in DOMAIN m._buffer_names
    THEN LET c_name == m._buffer_names[name] IN
         [ret |-> Ok(Unit), names |-> Without(m._buffer_names, name),
          table |-> Without(nMap, CStrRead(c_name)),
          calls |-> <<Call("kunEraseBufferNameMap", <<m.handle, c_name>>, Unit)>>]
    ELSE [ret |-> Ok(Unit), names |-> m._buffer_names, table |-> nMap,
          calls |-> <<>>]

erase_buffer(name) ==
    /\ buffers # NoObj
    /\ LET r == EraseBuffer(buffers, name) IN
       MapStep("erase_buffer", <<name>>, r.ret, r.names, r.table, r.calls)

\* A teardown of the map that frees the buffers it aliases.
DropBufferNameMap_FreesBuffers ==
    /\ buffers # NoObj
    /\ DropStep("drop BufferNameMap", buffers.handle, "kunDestoryBufferNameMap",
                {buffers.handle})
    /\ buffers' = NoObj
    /\ nMap' = EmptyFn
    /\ nReplaced' = {}
    /\ cMem' = [p \in DOMAIN cMem |->
                  IF p \in Aliased THEN [cMem[p] EXCEPT !.live = FALSE] ELSE cMem[p]]
    /\ UNCHANGED <<executor, library, module, stream, sessVars>>

DropBufferNameMap ==
    /\ buffers # NoObj
    /\ DropStep("drop BufferNameMap", buffers.handle, "kunDestoryBufferNameMap",
                {buffers.handle})
    /\ buffers' = NoObj
    /\ nMap' = EmptyFn
    /\ nReplaced' = {}
    /\ UNCHANGED cMem
    /\ UNCHANGED <<executor, library, module, stream, sessVars>>

----------------------------------------------------------------------------
(* Batch runner (batch.rs) *)

BatchParams_new(num_stocks, total_time, cur_time, length) ==
    Ok([num_stocks |-> num_stocks, total_time |-> total_time,
        cur_time |-> cur_time, length |-> length])

\* full_range with the window start and the window length exchanged.
BatchParams_full_range_Swapped(num_stocks, total_time) ==
    BatchParams_new(num_stocks, total_time, total_time, 0)

BatchParams_full_range(num_stocks, total_time) ==
    BatchParams_new(num_stocks, total_time, 0, total_time)

\* The values a caller passes when it builds parameters.
ParamNums == {0, 7, 8, 16}
ParamTimes == 0..MaxTime

\* A caller builds parameters with BatchParams::new.
NewParams(num_stocks, total_time, cur_time, length) ==
    /\ last' = Op("BatchParams::new", <<num_stocks, total_time, cur_time, length>>,
                  BatchParams_new(num_stocks, total_time, cur_time, length), <<>>)
    /\ UNCHANGED <<objVars, handleVars, sessVars, mapVars, uaf>>

\* A caller builds parameters with BatchParams::full_range.
FullRangeParams(num_stocks, total_time) ==
    /\ last' = Op("BatchParams::full_range", <<num_stocks, total_time>>,
                  BatchParams_full_range(num_stocks, total_time), <<>>)
    /\ UNCHANGED <<objVars, handleVars, sessVars, mapVars, uaf>>

BatchNums == {7, 8}
BatchTimes == {0, 1}

\* kunRunGraph writes its results through the table's pointers: which of
\* the registered buffers are outputs is the module's business.
Computed(outs) ==
    [p \in DOMAIN cMem |-> IF p \in outs THEN [cMem[p] EXCEPT !.val = 1] ELSE cMem[p]]

\* run_graph that passes the window start and length in exchanged places.
run_graph_Swapped(params) ==
    /\ executor # NoObj /\ module # NoObj /\ buffers # NoObj
    /\ last' = Op("run_graph", <<params>>, Ok(Unit),
                  <<Call("kunRunGraph",
                         <<executor.handle, module.handle, buffers.handle,
                           params.num_stocks, params.total_time,
                           params.length, params.cur_time>>, Unit)>>)
    /\ uaf' = (uaf \/ DeadUse({executor.handle, module.handle, buffers.handle}))
    /\ \E outs \in SUBSET Aliased : cMem' = Computed(outs)
    /\ UNCHANGED <<objVars, handleVars, sessVars, nMap, nReplaced>>

run_graph(params) ==
    /\ executor # NoObj /\ module # NoObj /\ buffers # NoObj
    /\ last' = Op("run_graph", <<params>>, Ok(Unit),
                  <<Call("kunRunGraph",
                         <<executor.handle, module.handle, buffers.handle,
                           params.num_stocks, params.total_time,
                           params.cur_time, params.length>>, Unit)>>)
    /\ uaf' = (uaf \/ DeadUse({executor.handle, module.handle, buffers.handle}))
    /\ \E outs \in SUBSET Aliased : cMem' = Computed(outs)
    /\ UNCHANGED <<objVars, handleVars, sessVars, nMap, nReplaced>>

----------------------------------------------------------------------------
(* Specifications *)

NoOp == Op("none", <<>>, Ok(Unit), <<>>)

\* The whole binding, from nothing constructed.
Init ==
    /\ executor = NoObj /\ library = NoObj /\ module = NoObj
    /\ buffers = NoObj /\ stream = NoObj
    /\ nNext = 1
    /\ nAlive = {}
    /\ nKind = [h \in 1..MaxHandles |-> "none"]
    /\ nDestroys = [h \in 1..MaxHandles |-> <<>>]
    /\ nTable = EmptyFn
    /\ nIn = EmptyFn
    /\ nRan = FALSE
    /\ nMap = EmptyFn
    /\ nReplaced = {}
    /\ cMem = [p \in Pointers |-> [live |-> TRUE, val |-> 0]]
    /\ nQueries = [n \in ReadNames |-> 0]
    /\ uaf = FALSE
    /\ view = NoView
    /\ last = NoOp

Next ==
    \/ Executor_single_thread
    \/ \E n \in ThreadCounts : Executor_multi_thread(n)
    \/ DropExecutor
    \/ \E p \in Paths : Library_load(p)
    \/ \E n \in Names : get_module(n)
    \/ DropLibrary
    \/ DropModule
    \/ BufferNameMap_new
    \/ DropBufferNameMap
    \/ \E n \in StockCounts : StreamContext_new(n)
    \/ run
    \/ DropStreamContext
    \/ \E n \in BatchNums, t \in BatchTimes, c \in BatchTimes, l \in BatchTimes :
         run_graph(BatchParams_new(n, t, c, l).val)

Spec == Init /\ [][Next]_vars

\* One stream session at a time over a live executor and module.
InitStream ==
    /\ executor = [tag |-> "Executor", handle |-> 1]
    /\ library = [tag |-> "Library", handle |-> 2]
    /\ module = [tag |-> "Module", handle |-> 3, _library |-> 2]
    /\ buffers = NoObj /\ stream = NoObj
    /\ nNext = 4
    /\ nAlive = {1, 2, 3}
    /\ nKind = [h \in 1..MaxHandles |->
                  IF h = 1 THEN "kunCreateSingleThreadExecutor"
                  ELSE IF h = 2 THEN "kunLoadLibrary"
                  ELSE IF h = 3 THEN "kunGetModuleFromLibrary" ELSE "none"]
    /\ nDestroys = [h \in 1..MaxHandles |-> <<>>]
    /\ nTable = EmptyFn
    /\ nIn = EmptyFn
    /\ nRan = FALSE
    /\ nMap = EmptyFn
    /\ nReplaced = {}
    /\ cMem = [p \in Pointers |-> [live |-> TRUE, val |-> 0]]
    /\ nQueries = [n \in ReadNames |-> 0]
    /\ uaf = FALSE
    /\ view = NoView
    /\ last = NoOp

NextStream ==
    \/ \E n \in StockCounts : StreamContext_new(n)
    \/ \E n \in Names : get_buffer_handle(n)
    \/ \E n \in Names : get_current_buffer(n)
    \/ release_view
    \/ \E n \in Names, d \in DataSlices : push_data(n, d)
    \/ run
    \/ StreamContext_num_stocks
    \/ DropStreamContext

SpecStream == InitStream /\ [][NextStream]_vars

\* One buffer-name map at a time.
NextMap ==
    \/ BufferNameMap_new
    \/ \E n \in Names, b \in Pointers : set_buffer(n, b)
    \/ \E n \in Names, b \in Slices : set_buffer_slice(n, b)
    \/ \E n \in Names : erase_buffer(n)
    \/ DropBufferNameMap

SpecMap == Init /\ [][NextMap]_vars

\* Every operation that takes a string, called with plain and NUL-carrying
\* strings, over the objects' whole life cycle.
BoundaryNames == {<<1>>, <<1, NUL, 2>>}
BoundaryData == {<<1>>, <<1, 1>>}
BoundaryPointer == 10

NextBoundary ==
    \/ Executor_single_thread
    \/ DropExecutor
    \/ \E p \in Paths : Library_load(p)
    \/ \E n \in BoundaryNames : get_module(n)
    \/ DropLibrary
    \/ DropModule
    \/ BufferNameMap_new
    \/ \E n \in BoundaryNames : set_buffer(n, BoundaryPointer)
    \/ \E n \in BoundaryNames : erase_buffer(n)
    \/ DropBufferNameMap
    \/ StreamContext_new(1)
    \/ \E n \in BoundaryNames : get_buffer_handle(n)
    \/ \E n \in BoundaryNames : get_current_buffer(n)
    \/ release_view
    \/ \E n \in BoundaryNames, d \in BoundaryData : push_data(n, d)
    \/ DropStreamContext

SpecBoundary == Init /\ [][NextBoundary]_vars

\* Every public operation that can fail, on objects that stay alive, until
\* one panics.
PublicThreads == 0
PublicParams == [num_stocks |-> 7, total_time |-> 1, cur_time |-> 1, length |-> 1]

NextPublic ==
    /\ ~Panicked(last)
    /\ \/ Executor_single_thread
       \/ Executor_multi_thread(PublicThreads)
       \/ \E p \in Paths : Library_load(p)
       \/ \E n \in BoundaryNames : get_module(n)
       \/ BufferNameMap_new
       \/ BufferNameMap_default
       \/ \E n \in BoundaryNames : set_buffer(n, BoundaryPointer)
       \/ \E n \in BoundaryNames :
            set_buffer_slice(n, [ptr |-> BoundaryPointer, len |-> 8])
       \/ \E n \in BoundaryNames : erase_buffer(n)
       \/ StreamContext_new(1)
       \/ \E n \in BoundaryNames : get_buffer_handle(n)
       \/ \E n \in BoundaryNames : get_current_buffer(n)
       \/ release_view
       \/ \E n \in BoundaryNames, d \in BoundaryData : push_data(n, d)
       \/ run
       \/ run_graph(PublicParams)

SpecPublic == Init /\ [][NextPublic]_vars

\* One buffer-name map at a time next to a live executor and module:
\* registrations, batch runs over them, and the map's teardown.
NextAlias ==
    \/ BufferNameMap_new
    \/ \E n \in Names, b \in Pointers : set_buffer(n, b)
    \/ \E n \in Names, b \in Slices : set_buffer_slice(n, b)
    \/ \E n \in Names : erase_buffer(n)
    \/ run_graph(PublicParams)
    \/ DropBufferNameMap

SpecAlias == InitStream /\ [][NextAlias]_vars

\* Batch parameters built from every combination of the callers' values.
NextBatch ==
    \/ \E n \in ParamNums, t \in ParamTimes, c \in ParamTimes, l \in ParamTimes :
         NewParams(n, t, c, l)
    \/ \E n \in ParamNums, t \in ParamTimes : FullRangeParams(n, t)

SpecBatch == Init /\ [][NextBatch]_vars

----------------------------------------------------------------------------
(* Properties *)

NotFound(name) == Err([kind |-> "BufferHandleNotFound", name |-> name])

\* C1: a push_data whose data length differs from num_stocks fails with
\* BufferSizeMismatch carrying the name, num_stocks and the actual length,
\* issues no native call at all, and leaves the handle cache and the
\* native session as they were.
C1_SizeMismatchBeforeNative ==
    [][ (stream # NoObj /\ last'.op = "push_data"
         /\ Len(last'.args[2]) # stream.num_stocks)
        => /\ last'.ret = Err([kind |-> "BufferSizeMismatch",
                               name |-> last'.args[1],
                               expected |-> stream.num_stocks,
                               actual |-> Len(last'.args[2])])
           /\ last'.calls = <<>>
           /\ stream' = stream
           /\ nQueries' = nQueries
           /\ nIn' = nIn ]_vars

\* A mismatching push of a name that is not in the cache was rejected.
C1_Witness ==
    /\ stream # NoObj
    /\ last.op = "push_data"
    /\ Len(last.args[2]) # stream.num_stocks
    /\ ~last.ret.ok /\ last.ret.err.kind = "BufferSizeMismatch"
    /\ last.args[1] \notin DOMAIN stream.buffer_handles

\* C2: once a name is in the handle cache of a context, every later step
\* of that context keeps the entry and its value, a later resolution of
\* the name yields that value without a native query, and the native side
\* has seen exactly one query for the name.
C2_ResolvedOnce ==
    [][ (stream # NoObj /\ stream' # NoObj /\ stream'.handle = stream.handle)
        => \A n \in DOMAIN stream.buffer_handles :
             /\ n \in DOMAIN stream'.buffer_handles
             /\ stream'.buffer_handles[n] = stream.buffer_handles[n]
             /\ nQueries[n] = 1 /\ nQueries'[n] = 1
             /\ (last'.op = "get_buffer_handle" /\ last'.args[1] = n)
                => /\ last'.ret = Ok(stream.buffer_handles[n])
                   /\ last'.calls = <<>>
             /\ (last'.op \in {"push_data", "get_current_buffer"}
                 /\ last'.args[1] = n)
                => /\ "kunQueryBufferHandle" \notin Fns(last'.calls)
                   /\ \A i \in DOMAIN last'.calls :
                        last'.calls[i].args[2] = stream.buffer_handles[n] ]_vars

\* A cached name was resolved again, by a read that reached the native side.
C2_Witness ==
    /\ stream # NoObj
    /\ last.op = "get_current_buffer"
    /\ last.args[1] \in DOMAIN stream.buffer_handles
    /\ Fns(last.calls) = {"kunStreamGetCurrentBuffer"}
    /\ nQueries[last.args[1]] = 1

\* C3: the sentinel never leaves get_buffer_handle: a query answered with
\* usize::MAX gives BufferHandleNotFound with the queried name, no
\* successful result is usize::MAX, and no cache entry holds usize::MAX.
C3_SentinelNeverEscapes ==
    /\ stream # NoObj
       => \A n \in DOMAIN stream.buffer_handles :
            stream.buffer_handles[n] # USIZE_MAX
    /\ last.op = "get_buffer_handle"
       => /\ last.ret.ok => last.ret.val # USIZE_MAX
          /\ (last.calls # <<>> /\ last.calls[1].ret = USIZE_MAX)
             => last.ret = NotFound(last.args[1])

\* The native query answered a get_buffer_handle with the sentinel.
C3_Witness ==
    /\ last.op = "get_buffer_handle"
    /\ last.calls # <<>>
    /\ last.calls[1].ret = USIZE_MAX

\* C4: for a plain name the session's table does not hold,
\* get_current_buffer and a push_data of the right length fail with
\* BufferHandleNotFound carrying the name, and neither reaches
\* kunStreamGetCurrentBuffer or kunStreamPushData.
C4_UnknownNameNotRead ==
    (/\ last.op \in {"get_current_buffer", "push_data"}
     /\ last.args[1] \in PlainNames
     /\ nTable[last.args[1]] = USIZE_MAX
     /\ last.op = "push_data" => Len(last.args[2]) = stream.num_stocks)
    => /\ last.ret = NotFound(last.args[1])
       /\ Fns(last.calls) \cap {"kunStreamGetCurrentBuffer", "kunStreamPushData"} = {}

\* A push of the right length under an unknown name was rejected after the
\* native query.
C4_Witness ==
    /\ last.op = "push_data"
    /\ Len(last.args[2]) = stream.num_stocks
    /\ last.ret = NotFound(last.args[1])
    /\ Fns(last.calls) = {"kunQueryBufferHandle"}

\* C5: set_buffer / set_buffer_slice under a name with an embedded NUL
\* fails with the error kind InvalidBufferName.
C5_NulNameIsInvalidBufferName ==
    (last.op \in {"set_buffer", "set_buffer_slice"} /\ HasNul(last.args[1]))
    => (~last.ret.ok /\ last.ret.err.kind = "InvalidBufferName")

\* The operations that take a name or a path.
StringOps == {"Library::load", "get_module", "set_buffer", "set_buffer_slice",
              "erase_buffer", "get_buffer_handle", "push_data",
              "get_current_buffer"}

\* What an operation leaves alone when it is rejected locally.
BoundaryUntouched ==
    /\ UNCHANGED <<objVars, handleVars, sessVars, mapVars, uaf>>

\* C6 as stated: every operation given a string with an embedded NUL
\* fails, issues no native call and changes nothing.
C6_NulStringAlwaysFails ==
    [][ (last'.op \in StringOps /\ HasNul(last'.args[1]))
        => /\ ~last'.ret.ok
           /\ last'.calls = <<>>
           /\ BoundaryUntouched ]_vars

\* C6, amended: a string with an embedded NUL never crosses the boundary
\* and changes nothing; the operation fails, except erase_buffer, which
\* returns Ok as the no-op it is for any unregistered name.
C6_NulStringNeverCrosses ==
    [][ (last'.op \in StringOps /\ HasNul(last'.args[1]))
        => /\ IF last'.op = "erase_buffer" THEN last'.ret = Ok(Unit)
              ELSE ~last'.ret.ok
           /\ last'.calls = <<>>
           /\ BoundaryUntouched ]_vars

\* A lookup by a NUL-carrying name was made on a library that holds the
\* module the truncated name would find.
C6_Witness ==
    /\ last.op = "get_module"
    /\ HasNul(last.args[1])
    /\ CStrRead(last.args[1]) \in LibModules
    /\ ~last.ret.ok

\* The owning handles of the live objects.
Owned == {o.handle : o \in {executor, library, buffers, stream} \ {NoObj}}

DestroyFns == {"kunDestoryExecutor", "kunUnloadLibrary",
               "kunDestoryBufferNameMap", "kunDestoryStream"}

\* The destroy entry point that matches a creator.
DestroyOf(creator) ==
    CASE creator \in {"kunCreateSingleThreadExecutor",
                      "kunCreateMultiThreadExecutor"} -> "kunDestoryExecutor"
      [] creator = "kunLoadLibrary" -> "kunUnloadLibrary"
      [] creator = "kunCreateBufferNameMap" -> "kunDestoryBufferNameMap"
      [] creator = "kunCreateStream" -> "kunDestoryStream"

\* C7: a created handle has received no destroy call while its owner
\* lives and exactly one, the matching one, once its owner is gone; a
\* handle that was never created and a module handle receive none, and no
\* destroy call is made with a null handle or by a failed constructor.
C7_DestroyedExactlyOnce ==
    /\ \A h \in 1..MaxHandles :
         IF nKind[h] \in {"none", "kunGetModuleFromLibrary"}
         THEN nDestroys[h] = <<>>
         ELSE IF h \in Owned
         THEN nDestroys[h] = <<>> /\ h \in nAlive
         ELSE nDestroys[h] = <<DestroyOf(nKind[h])>> /\ h \notin nAlive
    /\ \A i \in DOMAIN last.calls :
         last.calls[i].fn \in DestroyFns
         => (last.calls[i].args[1] # NULL /\ last.ret.ok)
    /\ ~last.ret.ok => Fns(last.calls) \cap DestroyFns = {}

\* Every kind of owner has been dropped, the module's library included.
C7_Witness ==
    /\ {nKind[h] : h \in {x \in 1..MaxHandles : nDestroys[x] # <<>>}}
         = {"kunCreateSingleThreadExecutor", "kunLoadLibrary",
            "kunCreateBufferNameMap", "kunCreateStream"}
    /\ \E h \in 1..MaxHandles :
         nKind[h] = "kunGetModuleFromLibrary" /\ h \notin nAlive

\* C8: no native call has received a handle that was not alive; a live
\* Module's library is loaded, a live StreamContext's executor and module
\* are alive, and a native session is alive only while its StreamContext
\* is, so it is destroyed before its executor and its module's library.
C8_NoUseAfterTeardown ==
    /\ ~uaf
    /\ module # NoObj => {module.handle, module._library} \subseteq nAlive
    /\ stream # NoObj => SessionHandles(stream) \subseteq nAlive
    /\ \A h \in nAlive :
         nKind[h] = "kunCreateStream" => (stream # NoObj /\ stream.handle = h)

\* The executor was destroyed after a session built from it was destroyed
\* and its module's library unloaded.
C8_Witness ==
    /\ last.op = "drop Executor"
    /\ \E h \in 1..MaxHandles :
         nKind[h] = "kunCreateStream" /\ nDestroys[h] # <<>>
    /\ \E h \in 1..MaxHandles :
         nKind[h] = "kunLoadLibrary" /\ nDestroys[h] # <<>>

\* The typed failure of each creator and lookup.
FailureOf(op, args) ==
    CASE op \in {"Executor::single_thread", "Executor::multi_thread"}
           -> [kind |-> "ExecutorCreationFailed"]
      [] op = "Library::load" -> [kind |-> "LibraryLoadFailed", path |-> args[1]]
      [] op = "get_module" -> [kind |-> "ModuleNotFound", name |-> args[1]]
      [] op = "BufferNameMap::new" -> [kind |-> "BufferNameMapCreationFailed"]
      [] op = "StreamContext::new" -> [kind |-> "StreamCreationFailed"]

CreatorOps == {"Executor::single_thread", "Executor::multi_thread",
               "Library::load", "get_module", "BufferNameMap::new",
               "StreamContext::new"}

\* C9: every live object holds a non-null handle, and a creator or lookup
\* whose native call returned null gave its typed failure.
C9_NoNullHandleObject ==
    /\ \A o \in {executor, library, module, buffers, stream} \ {NoObj} :
         o.handle # NULL
    /\ (last.op \in CreatorOps /\ last.calls # <<>> /\ last.calls[1].ret = NULL)
       => last.ret = Err(FailureOf(last.op, last.args))

\* The native loader returned null for a file that exists.
C9_Witness ==
    /\ last.op = "Library::load"
    /\ last.calls # <<>>
    /\ last.calls[1].ret = NULL
    /\ library = NoObj

\* C10: erase_buffer returns Ok; for a name the native table does not
\* hold it issues no native call and changes nothing, and for a name it
\* holds it issues exactly one native erase, of that name, and removes
\* that name only, from the table and from the owned names.
C10_EraseOnlyRegistered ==
    [][ (buffers # NoObj /\ last'.op = "erase_buffer")
        => LET n == last'.args[1] IN
           /\ last'.ret = Ok(Unit)
           /\ IF n \in DOMAIN nMap
              THEN /\ last'.calls = <<Call("kunEraseBufferNameMap",
                                           <<buffers.handle, Append(n, NUL)>>, Unit)>>
                   /\ nMap' = Without(nMap, n)
                   /\ buffers' = [buffers EXCEPT
                                    !._buffer_names = Without(@, n)]
              ELSE /\ last'.calls = <<>>
                   /\ nMap' = nMap
                   /\ buffers' = buffers ]_vars

\* An erase of an unregistered name left another registration in place.
C10_Witness ==
    /\ buffers # NoObj
    /\ last.op = "erase_buffer"
    /\ last.calls = <<>>
    /\ DOMAIN nMap # {}
    /\ ~HasNul(last.args[1])

\* The pointer a registration passes to the native map.
PointerOf(o) == IF o.op = "set_buffer_slice" THEN o.args[2].ptr ELSE o.args[2]

\* C11: a successful set_buffer or set_buffer_slice for a name that is
\* already registered issues one native registration of that name with the
\* new pointer; afterwards the native table maps the name to the new pointer
\* only, the owned names hold exactly one C copy of the name, and every
\* other name keeps its pointer and its owned copy.
C11_ReRegistrationOverwrites ==
    [][ (/\ buffers # NoObj
         /\ last'.op \in {"set_buffer", "set_buffer_slice"}
         /\ last'.ret.ok
         /\ last'.args[1] \in DOMAIN nMap)
        => LET n == last'.args[1]
               ptr == PointerOf(last') IN
           /\ last'.calls = <<Call("kunSetBufferNameMap",
                                    <<buffers.handle, Append(n, NUL), ptr>>, Unit)>>
           /\ DOMAIN nMap' = DOMAIN nMap
           /\ nMap'[n] = ptr
           /\ \A o \in DOMAIN nMap \ {n} : nMap'[o] = nMap[o]
           /\ DOMAIN buffers'._buffer_names = DOMAIN buffers._buffer_names
           /\ n \in DOMAIN buffers._buffer_names
           /\ buffers'._buffer_names[n] = Append(n, NUL)
           /\ \A o \in DOMAIN buffers._buffer_names \ {n} :
                 buffers'._buffer_names[o] = buffers._buffer_names[o] ]_vars

\* A name was registered again, with a pointer that differs from the one
\* another registered name keeps.
C11_Witness ==
    /\ buffers # NoObj
    /\ last.op \in {"set_buffer", "set_buffer_slice"}
    /\ last.ret.ok
    /\ last.args[1] \in nReplaced
    /\ nMap[last.args[1]] = PointerOf(last)
    /\ \E o \in DOMAIN nMap \ {last.args[1]} : nMap[o] # PointerOf(last)

\* C12: while the caller holds the slice get_current_buffer returned, no
\* push_data, run or drop of the context takes place: the context, the data
\* pushed to the native session and its run state stay as they are, and the
\* native session stays alive.
C12_ViewNeverOutlived ==
    [][ view # NoView
        => /\ last'.op \notin {"push_data", "run", "drop StreamContext"}
           /\ UNCHANGED <<stream, nIn, nRan>>
           /\ stream # NoObj
           /\ stream.handle \in nAlive' ]_vars

\* The caller holds the output slice of a session that has run.
C12_Witness ==
    /\ view # NoView
    /\ stream # NoObj
    /\ nRan
    /\ view.len = stream.num_stocks

\* The last native call of the operation o.
LastCall(o) == o.calls[Len(o.calls)]

\* The operation o reached the native function fn as its last call.
Reached(o, fn) == o.calls # <<>> /\ LastCall(o).fn = fn

\* C13: when get_current_buffer resolves the name and asks the native
\* session for the buffer, it fails with NullPointer exactly when the native
\* call returned the null pointer, and then no slice exists; otherwise it
\* returns the slice of num_stocks values at the pointer the native call
\* returned for the resolved handle.
C13_NullPointerIffNativeNull ==
    (last.op = "get_current_buffer" /\ Reached(last, "kunStreamGetCurrentBuffer"))
    => LET c == LastCall(last) IN
       /\ stream # NoObj
       /\ c.args[1] = stream.handle
       /\ c.args[2] = stream.buffer_handles[last.args[1]]
       /\ c.ret \in kunStreamGetCurrentBuffer(c.args[2])
       /\ IF c.ret = NULL
          THEN /\ ~last.ret.ok
               /\ last.ret = Err([kind |-> "NullPointer"])
               /\ view = NoView
          ELSE /\ last.ret.ok
               /\ last.ret.val = [ptr |-> c.ret, len |-> stream.num_stocks]
               /\ c.ret = BufAddr(c.args[2])
               /\ view \in {NoView, [tag |-> "view", ptr |-> c.ret,
                                      len |-> stream.num_stocks]}

\* The native session returned the null pointer for a resolved name of a
\* session that has run, and get_current_buffer failed with NullPointer.
C13_Witness ==
    /\ last.op = "get_current_buffer"
    /\ Reached(last, "kunStreamGetCurrentBuffer")
    /\ LastCall(last).ret = NULL
    /\ ~last.ret.ok
    /\ nRan
    /\ view = NoView

C16_NewValidates ==
    last.op = "BatchParams::new"
    => (last.ret.ok <=> (/\ last.args[1] % 8 = 0
                         /\ last.args[3] + last.args[4] <= last.args[2]))

\* C17: full_range(n, t) returns what new(n, t, 0, t) returns, which is Ok
\* of parameters with num_stocks = n, total_time = t, cur_time = 0 and
\* length = t.
C17_FullRangeIsNew ==
    last.op = "BatchParams::full_range"
    => LET n == last.args[1]
           t == last.args[2] IN
       /\ last.ret = BatchParams_new(n, t, 0, t)
       /\ last.ret.ok
       /\ last.ret.val = [num_stocks |-> n, total_time |-> t,
                          cur_time |-> 0, length |-> t]

\* full_range built parameters over a time range that is not empty.
C17_Witness ==
    /\ last.op = "BatchParams::full_range"
    /\ last.ret.ok
    /\ last.args[2] > 0
    /\ last.ret.val.length = last.args[2]

\* C18: Library::load fails with LibraryLoadFailed carrying the path it was
\* given both when the path does not exist, and then it issues no native
\* call, and when the native loader returns null; either way no Library is
\* constructed.
C18_LoadFailsAlike ==
    last.op = "Library::load"
    => LET p == last.args[1]
           failed == Err([kind |-> "LibraryLoadFailed", path |-> p]) IN
       /\ ~PathExists(p) => (last.ret = failed /\ last.calls = <<>>)
       /\ (Reached(last, "kunLoadLibrary") /\ LastCall(last).ret = NULL)
             => (last.ret = failed /\ Len(last.calls) = 1)
       /\ ~last.ret.ok => library = NoObj

\* load failed for a path that names no file, without a native call.
C18_Witness ==
    /\ last.op = "Library::load"
    /\ last.args[1] = PathMissing
    /\ ~last.ret.ok
    /\ last.ret.err.kind = "LibraryLoadFailed"
    /\ last.calls = <<>>
    /\ library = NoObj

\* C19: on a loaded Library, get_module for a name the library does not
\* hold fails with ModuleNotFound carrying that name, after one native
\* lookup and nothing else: the Library, its native handle and the record
\* of destroy calls stay as they are; and a get_module for a name the
\* library holds, following a failed one, succeeds with a Module of that
\* Library.
C19_NotFoundLeavesLibraryUsable ==
    [][ (library # NoObj /\ last'.op = "get_module")
        => LET n == last'.args[1] IN
           /\ (~HasNul(n) /\ n \notin LibModules)
                => /\ last'.ret = Err([kind |-> "ModuleNotFound", name |-> n])
                   /\ last'.calls = <<Call("kunGetModuleFromLibrary",
                                           <<library.handle, Append(n, NUL)>>, NULL)>>
                   /\ UNCHANGED <<library, module, nAlive, nDestroys>>
                   /\ library.handle \in nAlive'
           /\ (last.op = "get_module" /\ ~last.ret.ok /\ n \in LibModules)
                => /\ last'.ret.ok
                   /\ module' = last'.ret.val
                   /\ module'._library = library.handle
                   /\ UNCHANGED <<library, nAlive, nDestroys>> ]_vars

\* A lookup of a name the library does not hold failed, and the library
\* is still loaded.
C19_Witness ==
    /\ last.op = "get_module"
    /\ ~last.ret.ok
    /\ last.ret.err.kind = "ModuleNotFound"
    /\ library # NoObj
    /\ library.handle \in nAlive
    /\ nDestroys[library.handle] = <<>>
    /\ module = NoObj

\* C21: StreamContext::new issues one kunCreateStream with the stock count
\* it was given, whatever the count, and fails, with StreamCreationFailed,
\* exactly when that call returned null; otherwise the context holds the
\* returned handle and the count, and no step of the cycle fails on account
\* of the count: a push of num_stocks values fails only for a name that
\* cannot be resolved, run returns Ok, and a read that succeeds yields
\* num_stocks values.
C21_NoLocalStockCheck ==
    /\ last.op = "StreamContext::new"
       => /\ Len(last.calls) = 1
          /\ LastCall(last).fn = "kunCreateStream"
          /\ LastCall(last).args = <<executor.handle, module.handle, last.args[1]>>
          /\ ~last.ret.ok <=> LastCall(last).ret = NULL
          /\ ~last.ret.ok => last.ret.err = [kind |-> "StreamCreationFailed"]
          /\ last.ret.ok => /\ stream # NoObj
                           /\ stream.handle = LastCall(last).ret
                           /\ stream.num_stocks = last.args[1]
    /\ (last.op = "push_data" /\ Len(last.args[2]) = stream.num_stocks)
       => /\ ~last.ret.ok
               => last.ret.err.kind \in {"StringConversion", "BufferHandleNotFound"}
          /\ last.args[1] \in DOMAIN stream.buffer_handles => last.ret.ok
    /\ last.op = "run" => last.ret.ok
    /\ (last.op = "get_current_buffer" /\ last.ret.ok)
       => last.ret.val.len = stream.num_stocks

\* A context with a stock count that is no multiple of 8 went through a
\* push, a run and a read of num_stocks values.
C21_Witness ==
    /\ last.op = "get_current_buffer"
    /\ last.ret.ok
    /\ stream.num_stocks % 8 # 0
    /\ last.ret.val.len = stream.num_stocks
    /\ nRan
    /\ \E h \in DOMAIN nIn : Len(nIn[h]) = stream.num_stocks

\* C23: the only operation that panics is BufferNameMap::default, and only
\* when the native creation of the map returned null; every other failure
\* of every operation is returned as a KunQuantError.
C23_OnlyDefaultPanics ==
    /\ Panicked(last)
       => /\ last.op = "BufferNameMap::default"
          /\ LastCall(last).fn = "kunCreateBufferNameMap"
          /\ LastCall(last).ret = NULL
    /\ (~last.ret.ok /\ ~Panicked(last))
       => /\ DOMAIN last.ret = {"ok", "err"}
          /\ last.ret.err.kind \in ErrorKinds
          /\ last.op # "BufferNameMap::default"

\* The native creation of the map failed in BufferNameMap::new, which
\* returned the failure as a value.
C23_Witness ==
    /\ last.op = "BufferNameMap::new"
    /\ ~last.ret.ok
    /\ ~Panicked(last)
    /\ last.ret.err.kind = "BufferNameMapCreationFailed"
    /\ LastCall(last).ret = NULL

\* The calls among calls that push data to or run a native session.
PushesAndRuns(calls) ==
    LET IsPushOrRun(c) == c.fn \in {"kunStreamPushData", "kunStreamRun"}
    IN SelectSeq(calls, IsPushOrRun)

\* C24: every push_data and run issues its native calls before it returns,
\* so the native session receives them in the order of the operations: a
\* successful push_data issues exactly one kunStreamPushData, of its data
\* for the resolved handle, as its last call, after at most one handle
\* query that happens only when the name is not cached, and the session
\* holds the data when the operation returns; a failed push_data issues
\* no push and leaves the session's data alone; run issues exactly one
\* kunStreamRun and nothing else.
C24_ProgramOrder ==
    [][ (stream # NoObj /\ last'.op \in {"push_data", "run"})
        => LET o == last'
               n == Len(o.calls) IN
           /\ (o.op = "push_data" /\ o.ret.ok)
                => /\ n \in {1, 2}
                   /\ PushesAndRuns(o.calls) = <<o.calls[n]>>
                   /\ o.calls[n] = Call("kunStreamPushData",
                                        <<stream.handle,
                                          stream'.buffer_handles[o.args[1]],
                                          o.args[2]>>, Unit)
                   /\ n = 2 <=> o.args[1] \notin DOMAIN stream.buffer_handles
                   /\ n = 2 => o.calls[1].fn = "kunQueryBufferHandle"
                   /\ nIn'[stream'.buffer_handles[o.args[1]]] = o.args[2]
                   /\ \A h \in DOMAIN nIn \ {stream'.buffer_handles[o.args[1]]} :
                         nIn'[h] = nIn[h]
                   /\ nRan' = nRan
           /\ (o.op = "push_data" /\ ~o.ret.ok)
                => /\ PushesAndRuns(o.calls) = <<>>
                   /\ UNCHANGED <<nIn, nRan>>
           /\ o.op = "run"
                => /\ o.calls = <<Call("kunStreamRun", <<stream.handle>>, Unit)>>
                   /\ nRan'
                   /\ nIn' = nIn ]_vars

\* A push of new data for an input reached a session that has run and
\* holds data for another input.
C24_Witness ==
    /\ last.op = "push_data"
    /\ last.ret.ok
    /\ nRan
    /\ Len(last.calls) = 1
    /\ last.args[2] # <<>>
    /\ \E h \in DOMAIN nIn : nIn[h] = last.args[2]
    /\ \E h \in DOMAIN nIn : nIn[h] # <<>> /\ nIn[h] # last.args[2]

\* C26: a context is constructed with the stock count passed to new, and
\* no step of the context changes it: num_stocks() returns it, and a slice
\* returned by get_current_buffer has that length.
C26_StockCountFixed ==
    [][ /\ (stream = NoObj /\ stream' # NoObj)
            => /\ last'.op = "StreamContext::new"
               /\ stream'.num_stocks = last'.args[1]
        /\ (stream # NoObj /\ stream' # NoObj)
            => /\ stream'.num_stocks = stream.num_stocks
               /\ last'.op = "num_stocks" => last'.ret = Ok(stream.num_stocks)
               /\ (last'.op = "get_current_buffer" /\ last'.ret.ok)
                    => /\ last'.ret.val.len = stream.num_stocks
                       /\ view'.len = stream.num_stocks ]_vars

\* num_stocks() was asked of a context that has pushed, run and resolved
\* a number of buffers other than its stock count.
C26_Witness ==
    /\ last.op = "num_stocks"
    /\ last.ret = Ok(stream.num_stocks)
    /\ nRan
    /\ \E h \in DOMAIN nIn : nIn[h] # <<>>
    /\ Cardinality(DOMAIN stream.buffer_handles) # stream.num_stocks

MapOps == {"BufferNameMap::new", "set_buffer", "set_buffer_slice", "erase_buffer",
           "drop BufferNameMap"}

\* C27: a successful registration hands the caller's address to the native
\* table as it is, and the table then holds that address for the name; no
\* operation of the map, its teardown included, changes or frees a caller
\* buffer: caller memory changes only in a run_graph step, only at aliased
\* addresses, and stays allocated.
C27_MapOnlyAliases ==
    [][ /\ (last'.op \in {"set_buffer", "set_buffer_slice"} /\ last'.ret.ok)
            => /\ LastCall(last').args[3] = PointerOf(last')
               /\ nMap'[last'.args[1]] = PointerOf(last')
        /\ last'.op \in MapOps => cMem' = cMem
        /\ cMem' # cMem
            => /\ last'.op = "run_graph"
               /\ \A p \in DOMAIN cMem :
                    /\ cMem'[p].live = cMem[p].live
                    /\ cMem'[p] # cMem[p] => p \in Aliased ]_vars

\* The map went away after a batch run wrote through one of its aliases,
\* and every caller buffer is still allocated.
C27_Witness ==
    /\ last.op = "drop BufferNameMap"
    /\ buffers = NoObj
    /\ \E p \in DOMAIN cMem : cMem[p].val = 1
    /\ \A p \in DOMAIN cMem : cMem[p].live

\* C28: a BufferNameMap owns a C copy of a name exactly when the native
\* table holds that name, whatever registrations and erasures, successful
\* or failed, came before; the copy is the name with its terminator.
C28_OwnedNamesAreRegistered ==
    /\ buffers # NoObj
       => /\ DOMAIN buffers._buffer_names = DOMAIN nMap
          /\ \A n \in DOMAIN nMap : buffers._buffer_names[n] = Append(n, NUL)
    /\ buffers = NoObj => nMap = EmptyFn

\* A registered name was erased, by a native erase, while another name
\* stays registered after a re-registration.
C28_Witness ==
    /\ buffers # NoObj
    /\ last.op = "erase_buffer"
    /\ Fns(last.calls) = {"kunEraseBufferNameMap"}
    /\ last.args[1] \notin DOMAIN nMap
    /\ nReplaced # {}
    /\ DOMAIN buffers._buffer_names = DOMAIN nMap

\* The operations of a context that resolve a name.
ResolvingOps == {"get_buffer_handle", "push_data", "get_current_buffer"}

\* C29: in every step of a context the handle cache keeps its entries and
\* their values; a new entry is for the name the operation was given and
\* holds the value, other than the sentinel, that a native query for that
\* name returned in this operation; a resolution that fails as not found
\* queried the native side and leaves the name uncached; and a
\* get_buffer_handle for an uncached name queries the native side.
C29_CacheGrowsFaithfully ==
    [][ (stream # NoObj /\ stream' # NoObj)
        => LET old == stream.buffer_handles
               new == stream'.buffer_handles
               o == last' IN
           /\ \A n \in DOMAIN old : n \in DOMAIN new /\ new[n] = old[n]
           /\ \A n \in DOMAIN new \ DOMAIN old :
                /\ o.op \in ResolvingOps
                /\ o.args[1] = n
                /\ o.calls # <<>>
                /\ o.calls[1] = Call("kunQueryBufferHandle",
                                     <<stream.handle, Append(n, NUL)>>, new[n])
                /\ new[n] # USIZE_MAX
                /\ new[n] = kunQueryBufferHandle(nTable, Append(n, NUL))
           /\ (o.op \in ResolvingOps /\ ~o.ret.ok
                  /\ o.ret.err.kind = "BufferHandleNotFound")
                => /\ o.args[1] \notin DOMAIN new
                   /\ Len(o.calls) = 1
                   /\ o.calls[1] = Call("kunQueryBufferHandle",
                                        <<stream.handle, Append(o.args[1], NUL)>>,
                                        USIZE_MAX)
           /\ (o.op = "get_buffer_handle" /\ o.args[1] \notin DOMAIN old
                  /\ ~HasNul(o.args[1]))
                => Fns(o.calls) = {"kunQueryBufferHandle"} ]_vars

\* A name that had failed to resolve was resolved again, by a second
\* native query, while another name sits in the cache after a run.
C29_Witness ==
    /\ stream # NoObj
    /\ last.op = "get_buffer_handle"
    /\ ~last.ret.ok
    /\ last.ret.err.kind = "BufferHandleNotFound"
    /\ nQueries[last.args[1]] = 2
    /\ last.args[1] \notin DOMAIN stream.buffer_handles
    /\ DOMAIN stream.buffer_handles # {}
    /\ nRan

\* What a failed operation leaves alone besides the context: the other
\* objects, the native handles, the buffer-name map and a held slice.
FailureFrame == UNCHANGED <<executor, library, module, buffers, handleVars,
                            mapVars, view>>

\* C30, as claimed: an operation that fails leaves every object, with the
\* registrations, the handle cache and the stock count, and every native
\* resource as it was.
C30_FailureChangesNothing ==
    [][ ~last'.ret.ok => (FailureFrame /\ stream' = stream) ]_vars

\* C30, amended: an operation that fails leaves every object and every
\* native resource as it was, except that a get_current_buffer that fails
\* with NullPointer keeps in the handle cache the name it resolved on the
\* way; the context's handle and stock count stay as they were.
C30_FailureKeepsResolvedName ==
    [][ ~last'.ret.ok
        => /\ FailureFrame
           /\ IF last'.op = "get_current_buffer"
                 /\ last'.ret.err.kind = "NullPointer"
              THEN /\ stream # NoObj
                   /\ stream' = [stream EXCEPT !.buffer_handles =
                                   (last'.args[1] :> LastCall(last').args[2]) @@ @]
              ELSE stream' = stream ]_vars

\* get_current_buffer resolved a name by a native query, then failed with
\* NullPointer; the name is in the handle cache.
C30_Witness ==
    /\ last.op = "get_current_buffer"
    /\ ~last.ret.ok
    /\ last.ret.err.kind = "NullPointer"
    /\ Len(last.calls) = 2
    /\ last.calls[1].fn = "kunQueryBufferHandle"
    /\ last.args[1] \in DOMAIN stream.buffer_handles

====
